---- MODULE Spec2Model ----
(***************************************************************************)
(* Model of strava/download_activities.py: the token store (load_tokens,   *)
(* save_tokens, get_client), the activity cache (load_cached_activities,   *)
(* save_activities) and the sync run (download_activities).                *)
(*                                                                         *)
(* One run of download_activities is cut into steps at the points where    *)
(* the outside world answers: the refresh capability, each record the      *)
(* fetch generator yields (or its exception), and the completion of the    *)
(* cache write that follows open(ACTIVITIES_FILE, 'w'), and likewise the   *)
(* token write that follows open(TOKEN_FILE, 'w').                         *)
(*                                                                         *)
(* plots/generate_yearly_summary.py (main) is the second program of the    *)
(* module; its runs are the behaviours of SpecAgg.                         *)
(***************************************************************************)
EXTENDS Integers, Sequences, FiniteSets, TLC

(* ------------------------------ bounds --------------------------------- *)
\* ids of the activities of the remote service
MaxId == 2
\* timestamps 1..MaxDate; as fixed-format strings they compare as these numbers
MaxDate == 2
\* longest cache file the first run may find
MaxCache == 2
\* most records one fetch yields
MaxFetch == 2
\* time.time() runs over 0..MaxNow
MaxNow == 1
\* distinct credential triples the refresh capability hands out
MaxTok == 2
\* calendar years 1..MaxYear of the activities and of --year
MaxYear == 2
\* most activities in the data file of an aggregation run
MaxActs == 2

(* ------------------------------ values --------------------------------- *)
\* the refresh margin of get_client, in seconds
Margin == 300

\* a record without 'start_date': x.get('start_date', '') gives '', which
\* sorts before every timestamp, and x.get('start_date') gives None
NoDate == 0

Ids == 1..MaxId
Dates == 1..MaxDate

\* An activity as serialised by model_dump: only the fields the sync reads
\* (id, start_date) and the one the aggregation reads (start_date_local).
Records == [id : Ids, start_date : Dates \cup {NoDate}, start_date_local : Dates]

RECURSIVE SeqsUpTo(_, _)
SeqsUpTo(S, n) ==
  IF n = 0 THEN {<<>>}
  ELSE LET shorter == SeqsUpTo(S, n - 1)
       IN shorter \cup {Append(s, x) : s \in {t \in shorter : Len(t) = n - 1}, x \in S}

Range(s) == {s[i] : i \in 1..Len(s)}
IdsOf(s) == {s[i].id : i \in 1..Len(s)}

\* The content of strava_tokens.json; NoTokens stands for the missing file.
NoTokens == [access_token |-> 0, refresh_token |-> 0, expires_at |-> 0]
\* strava_tokens.json opened with 'w' by save_tokens and not completely written
BadTokens == [access_token |-> -1, refresh_token |-> -1, expires_at |-> -1]
\* The refresh capability issues access and refresh token together: triple n
\* carries access token n and refresh token n.
Credentials == {[access_token |-> n, refresh_token |-> n, expires_at |-> e] :
                  n \in 1..MaxTok, e \in Margin..(Margin + MaxNow)}

\* data/activities.json: missing, a complete JSON list, or a file that was
\* opened with 'w' and not completely written (empty or a prefix of the dump)
AbsentFile == [state |-> "absent", data |-> <<>>]
PartialFile == [state |-> "partial", data |-> <<>>]
OkFile(d) == [state |-> "ok", data |-> d]

VARIABLES
  pc,               \* "idle" | "refreshing" | "saving_tokens" | "fetching" | "writing"
  now,              \* time.time()
  tokens_file,      \* strava_tokens.json
  client,           \* the credential the stravalib Client carries
  activities_file,  \* data/activities.json
  cached_activities,
  after,
  new_activities,
  all_activities,
  outcome,          \* how the last run ended
  log,              \* the steps of the current (or last) run, in order
  file_at_start,    \* activities_file when the current (or last) run began
  check_left,       \* expires_at - time.time() when line 47 was evaluated
  issued            \* the last answer of the refresh capability

\* generate_yearly_summary.py
VARIABLES
  agg_pc,              \* "idle" | "started" | "rendering"
  year,                \* args.year
  data_file,           \* the file at args.data
  year_activities,
  main_map_activities,
  avg_pace_str,
  data_js,             \* templates/data.js as written by the run
  agg_outcome,         \* how the run ended
  agg_log              \* what the run did to the outside, in order

sync_vars == <<pc, now, tokens_file, client, activities_file, cached_activities, after,
               new_activities, all_activities, outcome, log, file_at_start, check_left,
               issued>>

agg_vars == <<agg_pc, year, data_file, year_activities, main_map_activities,
              avg_pace_str, data_js, agg_outcome, agg_log>>

vars == <<sync_vars, agg_vars>>

(* --------------------------- pure functions ---------------------------- *)
\* key=lambda x: x.get('start_date', '')
SortKey(x) == x.start_date

\* list.sort is stable: an element goes behind all elements whose key is <= its own
RECURSIVE InsertByKey(_, _)
InsertByKey(s, x) ==
  IF s = <<>> THEN <<x>>
  ELSE IF SortKey(s[Len(s)]) <= SortKey(x) THEN Append(s, x)
  ELSE Append(InsertByKey(SubSeq(s, 1, Len(s) - 1), x), s[Len(s)])

RECURSIVE SortFrom(_, _)
SortFrom(done, rest) ==
  IF rest = <<>> THEN done
  ELSE SortFrom(InsertByKey(done, rest[1]), Tail(rest))

\* a save that forgets to sort
NoSort(s) == s

\* activities.sort(key=lambda x: x.get('start_date', ''))
SortByStartDate(s) == SortFrom(<<>>, s)

\* a check without the margin
NeedsRefreshExpiredOnly(t, expires_at) == t > expires_at

\* time.time() > tokens['expires_at'] - 300
NeedsRefresh(t, expires_at) == t > expires_at - Margin

\* load_cached_activities: [] for a missing file and for one json.load rejects
LoadCached(f) == IF f.state = "ok" THEN f.data ELSE <<>>

\* a list in place of the dict: every assignment adds an entry
DictPutAppend(m, a) == Append(m, a)

\* a dict.setdefault in place of the assignment: the first value stays
DictPutKeepOld(m, a) ==
  IF a.id \in IdsOf(m) THEN m ELSE Append(m, a)

\* activity_map[a['id']] = a, the dict taken as the sequence of its values in
\* insertion order: assigning an existing key replaces the value in place, a
\* new key goes last.
DictPut(m, a) ==
  IF \E i \in 1..Len(m) : m[i].id = a.id
  THEN [i \in 1..Len(m) |-> IF m[i].id = a.id THEN a ELSE m[i]]
  ELSE Append(m, a)

RECURSIVE DictPutAll(_, _)
DictPutAll(m, s) ==
  IF s = <<>> THEN m ELSE DictPutAll(DictPut(m, s[1]), Tail(s))

\* the cached list taken as it is, not keyed by id
DictNoDedup(s) == s

\* {a['id']: a for a in cached_activities}
DictFromList(s) == DictPutAll(<<>>, s)

\* a merge that keeps the fetched records only
MergeOnlyFetched(cached, new) == DictPutAll(<<>>, new)

\* lines 135-142: list(activity_map.values()) after the updates
MergeById(cached, new) == DictPutAll(DictFromList(cached), new)

\* lines 135-144 and 86: the list save_activities dumps
SavedList(cached, new) == SortByStartDate(MergeById(cached, new))

\* the cache read without the defensive sort
CachedUnsorted(f) == LoadCached(f)

\* lines 96-102: the cache as download_activities holds it after the defensive sort
CachedSorted(f) == SortByStartDate(LoadCached(f))

\* after = latest_activity.get('start_date') of the sorted cache, None if empty
CursorOf(sorted) ==
  IF sorted = <<>> THEN NoDate ELSE sorted[Len(sorted)].start_date

(* ---------------- generate_yearly_summary.py: the values ---------------- *)
\* bbox = [[-3.32322, 51.38586], [-3.14065, 51.51634]], in units of 0.00001 degree
MinLon == -332322
MinLat == 5138586
MaxLon == -314065
MaxLat == 5151634

Years == 1..MaxYear

\* start_date_local: missing (or None), a string of the format
\* '%Y-%m-%dT%H:%M:%SZ' of a year, or a string of another shape of that year
NoStamp == [fmt |-> "none", y |-> 0]
Stamps == {NoStamp} \cup [fmt : {"iso_z", "other"}, y : Years]

\* start_latlng: missing, None or [] (NoPoint), or [lat, lon]
NoPoint == [lat |-> 0, lon |-> 0]
Points == {NoPoint} \cup [lat : {MinLat - 1, MinLat, MaxLat, MaxLat + 1},
                          lon : {MinLon - 1, MinLon, MaxLon, MaxLon + 1}]

\* distance in metres, moving_time in seconds
Distances == {0, 5000, 10000}
MovingTimes == {1500, 3000, 3030}

\* a run of year 1 that starts inside the bounding box
BaseActivity ==
  [type |-> "Run", start_date_local |-> [fmt |-> "iso_z", y |-> 1],
   distance |-> 10000, moving_time |-> 3000,
   start_latlng |-> [lat |-> MinLat, lon |-> MinLon]]

\* The activities a data file is made of: the base activity with its kind and
\* timestamp varied, with its distance and moving time varied, and with its
\* start point varied.
Activities ==
  {[BaseActivity EXCEPT !.type = t, !.start_date_local = st] :
      t \in {"Run", "Ride"}, st \in Stamps}
  \cup {[BaseActivity EXCEPT !.distance = d, !.moving_time = mt] :
      d \in Distances, mt \in MovingTimes}
  \cup {[BaseActivity EXCEPT !.start_latlng = pt] : pt \in Points}

\* the file at args.data: missing, a JSON list, or a file json.load rejects
NoDataFile == [state |-> "absent", data |-> <<>>]
BadDataFile == [state |-> "partial", data |-> <<>>]

\* templates/data.js before the run wrote it
NoPayload == [written |-> FALSE, year |-> 0, runs |-> <<>>, mainMapRuns |-> <<>>,
              avgPace |-> <<>>]

(* -------------- generate_yearly_summary.py: pure functions -------------- *)
\* datetime.strptime(start_date, '%Y-%m-%dT%H:%M:%SZ'): the year of the
\* datetime, or "ValueError" for a string of another shape
Strptime(st) == IF st.fmt = "iso_z" THEN [ok |-> TRUE, year |-> st.y]
                ELSE [ok |-> FALSE, year |-> 0]

\* a loop that ends at the first timestamp it cannot parse
RECURSIVE SelectYearStopsAtBadDate(_, _)
SelectYearStopsAtBadDate(acts, yr) ==
  IF acts = <<>> THEN <<>>
  ELSE LET a == acts[1]
       IN IF a.type = "Run" /\ a.start_date_local # NoStamp
             /\ ~Strptime(a.start_date_local).ok
          THEN <<>>
          ELSE IF a.type = "Run" /\ a.start_date_local # NoStamp
                  /\ Strptime(a.start_date_local).year = yr
          THEN <<a>> \o SelectYearStopsAtBadDate(Tail(acts), yr)
          ELSE SelectYearStopsAtBadDate(Tail(acts), yr)

\* lines 31-43: the activities of type 'Run' whose start_date_local parses to
\* the year, in file order; one that does not parse is warned about and skipped
RECURSIVE SelectYear(_, _)
SelectYear(acts, yr) ==
  IF acts = <<>> THEN <<>>
  ELSE LET a == acts[1]
           rest == SelectYear(Tail(acts), yr)
       IN IF /\ a.type = "Run"
             /\ a.start_date_local # NoStamp
             /\ Strptime(a.start_date_local).ok
             /\ Strptime(a.start_date_local).year = yr
          THEN <<a>> \o rest
          ELSE rest

\* lines 41-42: the timestamps the run prints a warning for
RECURSIVE Warnings(_)
Warnings(acts) ==
  IF acts = <<>> THEN <<>>
  ELSE LET a == acts[1]
       IN IF a.type = "Run" /\ a.start_date_local # NoStamp
             /\ ~Strptime(a.start_date_local).ok
          THEN <<a.start_date_local>> \o Warnings(Tail(acts))
          ELSE Warnings(Tail(acts))

\* a filter with the northern and eastern edge left out
InBoxHalfOpen(pt) ==
  /\ pt # NoPoint
  /\ MinLat <= pt.lat /\ pt.lat < MaxLat
  /\ MinLon <= pt.lon /\ pt.lon < MaxLon

\* lines 84-87: start_latlng and len(start_latlng) == 2 and
\* min_lat <= lat <= max_lat and min_lon <= lon <= max_lon
InBox(pt) ==
  /\ pt # NoPoint
  /\ MinLat <= pt.lat /\ pt.lat <= MaxLat
  /\ MinLon <= pt.lon /\ pt.lon <= MaxLon

\* lines 57-88: main_map_activities
RECURSIVE MainMap(_)
MainMap(acts) ==
  IF acts = <<>> THEN <<>>
  ELSE IF InBox(acts[1].start_latlng) THEN <<acts[1]>> \o MainMap(Tail(acts))
  ELSE MainMap(Tail(acts))

\* lines 72-73: total_dist_meters and total_seconds
RECURSIVE TotalDistance(_)
TotalDistance(acts) ==
  IF acts = <<>> THEN 0 ELSE acts[1].distance + TotalDistance(Tail(acts))

RECURSIVE TotalSeconds(_)
TotalSeconds(acts) ==
  IF acts = <<>> THEN 0 ELSE acts[1].moving_time + TotalSeconds(Tail(acts))

\* line 130: the cleaned activity, here its date
RECURSIVE CleanAll(_)
CleanAll(acts) ==
  IF acts = <<>> THEN <<>> ELSE <<acts[1].start_date_local>> \o CleanAll(Tail(acts))

(* ------------- Python floats: IEEE 754 binary64 arithmetic -------------- *)
\* A natural number of any size: its digits to the base 2^15, lowest first,
\* without leading zero digits; <<>> is 0.
LimbBits == 15
Base == 32768

RECURSIVE BigFromInt(_)
BigFromInt(n) == IF n = 0 THEN <<>> ELSE <<n % Base>> \o BigFromInt(n \div Base)

RECURSIVE BigToInt(_)
BigToInt(a) == IF a = <<>> THEN 0 ELSE a[1] + Base * BigToInt(Tail(a))

RECURSIVE BigNorm(_)
BigNorm(a) ==
  IF a = <<>> THEN <<>>
  ELSE IF a[Len(a)] = 0 THEN BigNorm(SubSeq(a, 1, Len(a) - 1))
  ELSE a

RECURSIVE BigMulSmall(_, _, _)
BigMulSmall(a, x, carry) ==
  IF a = <<>> THEN BigFromInt(carry)
  ELSE LET t == a[1] * x + carry
       IN <<t % Base>> \o BigMulSmall(Tail(a), x, t \div Base)

RECURSIVE BigAdd(_, _, _)
BigAdd(a, b, carry) ==
  IF a = <<>> /\ b = <<>> THEN BigFromInt(carry)
  ELSE LET x == IF a = <<>> THEN 0 ELSE a[1]
           y == IF b = <<>> THEN 0 ELSE b[1]
           t == x + y + carry
       IN <<t % Base>> \o BigAdd(IF a = <<>> THEN <<>> ELSE Tail(a),
                                 IF b = <<>> THEN <<>> ELSE Tail(b), t \div Base)

\* a - b for a >= b, digit by digit with a borrow; not normalised
RECURSIVE BigSubRaw(_, _, _)
BigSubRaw(a, b, borrow) ==
  IF a = <<>> THEN <<>>
  ELSE LET y == IF b = <<>> THEN 0 ELSE b[1]
           t == a[1] - y - borrow
       IN <<(t + Base) % Base>> \o
          BigSubRaw(Tail(a), IF b = <<>> THEN <<>> ELSE Tail(b), IF t < 0 THEN 1 ELSE 0)

BigSub(a, b) == BigNorm(BigSubRaw(a, b, 0))

\* a * Base^n
RECURSIVE BigShiftLimbs(_, _)
BigShiftLimbs(a, n) ==
  IF a = <<>> \/ n = 0 THEN a ELSE BigShiftLimbs(<<0>> \o a, n - 1)

RECURSIVE BigMul(_, _)
BigMul(a, b) ==
  IF a = <<>> \/ b = <<>> THEN <<>>
  ELSE BigAdd(BigMulSmall(a, b[1], 0), BigShiftLimbs(BigMul(a, Tail(b)), 1), 0)

\* the quotient of a by d (0 < d < Base), from the highest digit down
RECURSIVE BigDivDigits(_, _, _)
BigDivDigits(a, d, rem) ==
  IF a = <<>> THEN <<>>
  ELSE LET t == rem * Base + a[Len(a)]
       IN BigDivDigits(SubSeq(a, 1, Len(a) - 1), d, t % d) \o <<t \div d>>

BigDivSmall(a, d) == BigNorm(BigDivDigits(a, d, 0))

RECURSIVE Pow2(_)
Pow2(k) == IF k = 0 THEN 1 ELSE 2 * Pow2(k - 1)

RECURSIVE SmallBitLen(_)
SmallBitLen(n) == IF n = 0 THEN 0 ELSE 1 + SmallBitLen(n \div 2)

BitLen(a) == IF a = <<>> THEN 0 ELSE LimbBits * (Len(a) - 1) + SmallBitLen(a[Len(a)])

\* a * 2^k and floor(a / 2^k)
BigShl(a, k) ==
  BigShiftLimbs(BigMulSmall(a, Pow2(k % LimbBits), 0), k \div LimbBits)

BigShr(a, k) ==
  IF k \div LimbBits >= Len(a) THEN <<>>
  ELSE BigDivSmall(SubSeq(a, (k \div LimbBits) + 1, Len(a)), Pow2(k % LimbBits))

\* A float is m * 2^e with m < 2^53.  RoundToFloat gives the float nearest to
\* a * 2^e, ties to even, where sticky says that the exact value lies above
\* a * 2^e by less than 2^e.
MantissaBits == 53

RoundToFloat(a, sticky, e) ==
  IF BitLen(a) <= MantissaBits THEN [m |-> a, e |-> e]
  ELSE LET shift == BitLen(a) - MantissaBits
           t == BigShr(a, shift - 1)
           m == BigShr(t, 1)
           guard == t[1] % 2
           below == sticky \/ BigShl(t, shift - 1) # a
           odd == m[1] % 2 = 1
       IN [m |-> IF guard = 1 /\ (below \/ odd) THEN BigAdd(m, <<1>>, 0) ELSE m,
           e |-> e + shift]

\* n / d of two positive ints, and x * y of two floats
DivScale == 75

FloatDiv(n, d) ==
  LET num == BigShl(BigFromInt(n), DivScale)
      q == BigDivSmall(num, d)
  IN RoundToFloat(q, BigMulSmall(q, d, 0) # num, -DivScale)

FloatMul(x, y) == RoundToFloat(BigMul(x.m, y.m), FALSE, x.e + y.e)

\* int(x) for a float x >= 0
FloatTrunc(x) ==
  IF x.e >= 0 THEN BigToInt(BigShl(x.m, x.e)) ELSE BigToInt(BigShr(x.m, -x.e))

\* x - n for n = int(x): the difference is a float, no rounding happens
FloatFrac(x, n) ==
  IF x.e >= 0 THEN [m |-> <<>>, e |-> 0]
  ELSE [m |-> BigSub(x.m, BigShl(BigFromInt(n), -x.e)), e |-> x.e]

\* f"{n:02d}" for 0 <= n < 100: two decimal digits
ZeroPad2(n) == <<n \div 10, n % 10>>

\* f"{pace_min}:{pace_sec:02d} /km"
PaceStr(pace_min, pace_sec) == [min |-> pace_min, sec |-> ZeroPad2(pace_sec)]

\* lines 105-111
AvgPaceStr(total_seconds, total_dist_meters) ==
  IF total_dist_meters > 0
  THEN LET avg_pace_decimal ==
             FloatMul(IF total_seconds = 0 THEN [m |-> <<>>, e |-> 0]
                      ELSE FloatDiv(total_seconds, total_dist_meters),
                      FloatDiv(1000, 60))
           pace_min == FloatTrunc(avg_pace_decimal)
           pace_sec == FloatTrunc(FloatMul(FloatFrac(avg_pace_decimal, pace_min),
                                           [m |-> <<60>>, e |-> 0]))
       IN PaceStr(pace_min, pace_sec)
  ELSE PaceStr(0, 0)

\* the aggregation has not run
AggNotRun ==
  /\ agg_pc = "idle"
  /\ year = 1
  /\ data_file = NoDataFile
  /\ year_activities = <<>>
  /\ main_map_activities = <<>>
  /\ avg_pace_str = <<>>
  /\ data_js = NoPayload
  /\ agg_outcome = "none"
  /\ agg_log = <<>>

(* ------------------------------- Init ---------------------------------- *)
Init ==
  /\ pc = "idle"
  /\ now = 0
  /\ tokens_file \in {NoTokens} \cup {c \in Credentials : c.access_token = 1}
  /\ client = NoTokens
  /\ activities_file \in {AbsentFile} \cup {OkFile(d) : d \in SeqsUpTo(Records, MaxCache)}
  /\ cached_activities = <<>>
  /\ after = NoDate
  /\ new_activities = <<>>
  /\ all_activities = <<>>
  /\ outcome = "none"
  /\ log = <<>>
  /\ file_at_start = activities_file
  /\ check_left = Margin
  /\ issued = NoTokens
  /\ AggNotRun

(* ------------------------------ actions -------------------------------- *)
\* time passes; time.time() is read only at line 47, at the start of a run
Tick ==
  /\ pc = "idle"
  /\ now < MaxNow
  /\ now' = now + 1
  /\ UNCHANGED <<pc, tokens_file, client, activities_file, cached_activities, after,
                 new_activities, all_activities, outcome, log, file_at_start,
                 check_left, issued>>
  /\ UNCHANGED agg_vars

\* lines 96-116 with the client c: load the cache, sort it, take the cursor and
\* call client.get_activities(after=after, limit=limit)
BeginFetch(c, steps) ==
  /\ client' = c
  /\ cached_activities' = CachedSorted(activities_file)
  /\ after' = CursorOf(cached_activities')
  /\ new_activities' = <<>>
  /\ all_activities' = <<>>
  /\ log' = steps \o <<"load_cache", "cursor", "fetch">>
  /\ pc' = "fetching"
  /\ outcome' = "running"

\* download_activities -> get_client -> load_tokens finds no token file
GetClientMissing ==
  /\ pc = "idle"
  /\ tokens_file = NoTokens
  /\ outcome' = "missing_credential"
  /\ log' = <<"load_tokens">>
  /\ file_at_start' = activities_file
  /\ client' = NoTokens
  /\ cached_activities' = <<>>
  /\ after' = NoDate
  /\ new_activities' = <<>>
  /\ all_activities' = <<>>
  /\ check_left' = Margin
  /\ UNCHANGED <<pc, now, tokens_file, activities_file, issued>>
  /\ UNCHANGED agg_vars

\* load_tokens finds a token file that json.load rejects (line 29): the
\* JSONDecodeError is caught nowhere and ends the process with a traceback
GetClientCorrupt ==
  /\ pc = "idle"
  /\ tokens_file = BadTokens
  /\ outcome' = "uncaught_exception"
  /\ log' = <<"load_tokens">>
  /\ file_at_start' = activities_file
  /\ client' = NoTokens
  /\ cached_activities' = <<>>
  /\ after' = NoDate
  /\ new_activities' = <<>>
  /\ all_activities' = <<>>
  /\ check_left' = Margin
  /\ UNCHANGED <<pc, now, tokens_file, activities_file, issued>>
  /\ UNCHANGED agg_vars

\* get_client with a token that has 300 s or more left: no refresh
GetClientFresh ==
  /\ pc = "idle"
  /\ tokens_file \in Credentials
  /\ ~NeedsRefresh(now, tokens_file.expires_at)
  /\ check_left' = tokens_file.expires_at - now
  /\ file_at_start' = activities_file
  /\ BeginFetch(tokens_file, <<"load_tokens", "check_expiry">>)
  /\ UNCHANGED <<now, tokens_file, activities_file, issued>>
  /\ UNCHANGED agg_vars

\* get_client with a token that is expired or about to: call the refresh capability
GetClientStale ==
  /\ pc = "idle"
  /\ tokens_file \in Credentials
  /\ NeedsRefresh(now, tokens_file.expires_at)
  /\ check_left' = tokens_file.expires_at - now
  /\ file_at_start' = activities_file
  /\ client' = tokens_file
  /\ cached_activities' = <<>>
  /\ after' = NoDate
  /\ new_activities' = <<>>
  /\ all_activities' = <<>>
  /\ log' = <<"load_tokens", "check_expiry", "refresh">>
  /\ outcome' = "running"
  /\ pc' = "refreshing"
  /\ UNCHANGED <<now, tokens_file, activities_file, issued>>
  /\ UNCHANGED agg_vars

\* lines 57-61 and 32: the refresh answered; save_tokens opens the token file
\* with 'w' (which truncates it) and starts json.dump
RefreshOk ==
  /\ pc = "refreshing"
  /\ \E resp \in Credentials : issued' = resp
  /\ tokens_file' = BadTokens
  /\ log' = log \o <<"save_tokens">>
  /\ pc' = "saving_tokens"
  /\ UNCHANGED <<now, client, activities_file, cached_activities, after, new_activities,
                 all_activities, outcome, file_at_start, check_left>>
  /\ UNCHANGED agg_vars

\* a save_tokens that writes the new access token and expiry only
SaveTokensKeepsRefreshToken ==
  /\ pc = "saving_tokens"
  /\ tokens_file' = [issued EXCEPT !.refresh_token = client.refresh_token]
  /\ BeginFetch(issued, log)
  /\ UNCHANGED <<now, activities_file, file_at_start, check_left, issued>>
  /\ UNCHANGED agg_vars

\* lines 33-34 and 64-72: the whole triple is dumped, the client takes the new
\* tokens and get_client returns it
SaveTokensDone ==
  /\ pc = "saving_tokens"
  /\ tokens_file' = issued
  /\ BeginFetch(issued, log)
  /\ UNCHANGED <<now, activities_file, file_at_start, check_left, issued>>
  /\ UNCHANGED agg_vars

\* line 33 raised (a disk write error); lines 68-70 log it as a failed refresh
\* and get_client returns None
SaveTokensFail ==
  /\ pc = "saving_tokens"
  /\ pc' = "idle"
  /\ outcome' = "save_tokens_failed"
  /\ log' = log \o <<"save_tokens_failed">>
  /\ UNCHANGED <<now, tokens_file, client, activities_file, cached_activities, after,
                 new_activities, all_activities, file_at_start, check_left, issued>>
  /\ UNCHANGED agg_vars

\* an except clause that logs and falls through to 'return client'
RefreshFailFetchesAnyway ==
  /\ pc = "refreshing"
  /\ BeginFetch(client, log \o <<"refresh_failed">>)
  /\ UNCHANGED <<now, tokens_file, activities_file, file_at_start, check_left, issued>>
  /\ UNCHANGED agg_vars

\* an except clause that also throws the stored credential away
RefreshFailDropsTokens ==
  /\ pc = "refreshing"
  /\ pc' = "idle"
  /\ outcome' = "refresh_failed"
  /\ log' = log \o <<"refresh_failed">>
  /\ tokens_file' = NoTokens
  /\ UNCHANGED <<now, client, activities_file, cached_activities, after,
                 new_activities, all_activities, file_at_start, check_left, issued>>
  /\ UNCHANGED agg_vars

\* lines 68-70: the refresh raised; get_client returns None and the run ends
RefreshFail ==
  /\ pc = "refreshing"
  /\ pc' = "idle"
  /\ outcome' = "refresh_failed"
  /\ log' = log \o <<"refresh_failed">>
  /\ UNCHANGED <<now, tokens_file, client, activities_file, cached_activities, after,
                 new_activities, all_activities, file_at_start, check_left, issued>>
  /\ UNCHANGED agg_vars

\* lines 118-129: the generator yields one more activity
FetchYield ==
  /\ pc = "fetching"
  /\ Len(new_activities) < MaxFetch
  /\ \E a \in Records : new_activities' = Append(new_activities, a)
  /\ UNCHANGED <<pc, now, tokens_file, client, activities_file, cached_activities,
                 after, all_activities, outcome, log, file_at_start, check_left, issued>>
  /\ UNCHANGED agg_vars

\* an except clause that saves what was fetched so far
FetchRaiseSavesPartial ==
  /\ pc = "fetching"
  /\ pc' = "idle"
  /\ outcome' = "fetch_failed"
  /\ activities_file' =
       IF new_activities = <<>> THEN activities_file
       ELSE OkFile(SavedList(cached_activities, new_activities))
  /\ log' = log \o <<"fetch_failed">>
  /\ UNCHANGED <<now, tokens_file, client, cached_activities, after, new_activities,
                 all_activities, file_at_start, check_left, issued>>
  /\ UNCHANGED agg_vars

\* lines 148-151: the generator raised; nothing is saved
FetchRaise ==
  /\ pc = "fetching"
  /\ pc' = "idle"
  /\ outcome' = "fetch_failed"
  /\ log' = log \o <<"fetch_failed">>
  /\ UNCHANGED <<now, tokens_file, client, activities_file, cached_activities, after,
                 new_activities, all_activities, file_at_start, check_left, issued>>
  /\ UNCHANGED agg_vars

\* a run that saves the (sorted) cache also when nothing was fetched
FetchEndEmptyRewrites ==
  /\ pc = "fetching"
  /\ new_activities = <<>>
  /\ pc' = "idle"
  /\ outcome' = "empty"
  /\ activities_file' = OkFile(cached_activities)
  /\ UNCHANGED <<now, tokens_file, client, cached_activities, after, new_activities,
                 all_activities, log, file_at_start, check_left, issued>>
  /\ UNCHANGED agg_vars

\* lines 133, 145-146: the generator ended without a record
FetchEndEmpty ==
  /\ pc = "fetching"
  /\ new_activities = <<>>
  /\ pc' = "idle"
  /\ outcome' = "empty"
  /\ UNCHANGED <<now, tokens_file, client, activities_file, cached_activities, after,
                 new_activities, all_activities, log, file_at_start, check_left, issued>>
  /\ UNCHANGED agg_vars

\* lines 133-144 and 86-87: merge by id, sort, open the cache file with 'w'
\* (which truncates it) and start json.dump
FetchEndMerge ==
  /\ pc = "fetching"
  /\ new_activities # <<>>
  /\ all_activities' = SavedList(cached_activities, new_activities)
  /\ activities_file' = PartialFile
  /\ log' = log \o <<"merge", "persist">>
  /\ pc' = "writing"
  /\ UNCHANGED <<now, tokens_file, client, cached_activities, after, new_activities,
                 outcome, file_at_start, check_left, issued>>
  /\ UNCHANGED agg_vars

\* lines 133-144 and 86-87, where open(ACTIVITIES_FILE, 'w') raises (no data
\* directory, no permission): nothing is truncated, lines 148-149 log it
OpenFail ==
  /\ pc = "fetching"
  /\ new_activities # <<>>
  /\ all_activities' = SavedList(cached_activities, new_activities)
  /\ log' = log \o <<"merge", "persist">>
  /\ pc' = "idle"
  /\ outcome' = "save_failed"
  /\ UNCHANGED <<now, tokens_file, client, activities_file, cached_activities, after,
                 new_activities, file_at_start, check_left, issued>>
  /\ UNCHANGED agg_vars

\* lines 88-89: json.dump wrote the whole list and the file was closed
WriteDone ==
  /\ pc = "writing"
  /\ activities_file' = OkFile(all_activities)
  /\ pc' = "idle"
  /\ outcome' = "saved"
  /\ UNCHANGED <<now, tokens_file, client, cached_activities, after, new_activities,
                 all_activities, log, file_at_start, check_left, issued>>
  /\ UNCHANGED agg_vars

\* line 88 raised (a disk write error); lines 148-149 log it and the run ends
WriteFail ==
  /\ pc = "writing"
  /\ pc' = "idle"
  /\ outcome' = "save_failed"
  /\ UNCHANGED <<now, tokens_file, client, activities_file, cached_activities, after,
                 new_activities, all_activities, log, file_at_start, check_left, issued>>
  /\ UNCHANGED agg_vars

\* the process is killed in the middle of a run
Crash ==
  /\ pc # "idle"
  /\ pc' = "idle"
  /\ outcome' = "crashed"
  /\ UNCHANGED <<now, tokens_file, client, activities_file, cached_activities, after,
                 new_activities, all_activities, log, file_at_start, check_left, issued>>
  /\ UNCHANGED agg_vars

Next ==
  \/ Tick
  \/ GetClientMissing
  \/ GetClientCorrupt
  \/ GetClientFresh
  \/ GetClientStale
  \/ RefreshOk
  \/ SaveTokensDone
  \/ SaveTokensFail
  \/ RefreshFail
  \/ FetchYield
  \/ FetchRaise
  \/ FetchEndEmpty
  \/ FetchEndMerge
  \/ OpenFail
  \/ WriteDone
  \/ WriteFail
  \/ Crash

Spec == Init /\ [][Next]_vars

(* ------------------- generate_yearly_summary.py: main ------------------- *)
\* One run of main with the arguments --year and --data: the run starts with
\* the file check of line 19.
InitAgg ==
  /\ pc = "idle"
  /\ now = 0
  /\ tokens_file = NoTokens
  /\ client = NoTokens
  /\ activities_file = AbsentFile
  /\ cached_activities = <<>>
  /\ after = NoDate
  /\ new_activities = <<>>
  /\ all_activities = <<>>
  /\ outcome = "none"
  /\ log = <<>>
  /\ file_at_start = activities_file
  /\ check_left = Margin
  /\ issued = NoTokens
  /\ agg_pc = "started"
  /\ year \in Years
  /\ data_file \in {NoDataFile, BadDataFile}
                   \cup {OkFile(d) : d \in SeqsUpTo(Activities, MaxActs)}
  /\ year_activities = <<>>
  /\ main_map_activities = <<>>
  /\ avg_pace_str = <<>>
  /\ data_js = NoPayload
  /\ agg_outcome = "running"
  /\ agg_log = <<>>

\* lines 19-21: no file at args.data; sys.exit(1)
AggMissingFile ==
  /\ agg_pc = "started"
  /\ data_file.state = "absent"
  /\ agg_pc' = "done"
  /\ agg_outcome' = "missing_file"
  /\ UNCHANGED <<year, data_file, year_activities, main_map_activities, avg_pace_str,
                 data_js, agg_log>>
  /\ UNCHANGED sync_vars

\* lines 27-28: json.load rejects the file; the JSONDecodeError is caught nowhere
AggBadFile ==
  /\ agg_pc = "started"
  /\ data_file.state = "partial"
  /\ agg_pc' = "done"
  /\ agg_outcome' = "uncaught_exception"
  /\ UNCHANGED <<year, data_file, year_activities, main_map_activities, avg_pace_str,
                 data_js, agg_log>>
  /\ UNCHANGED sync_vars

\* an empty year that still writes its payload and renders it
AggNoDataWritesPayload ==
  /\ agg_pc = "started"
  /\ data_file.state = "ok"
  /\ SelectYear(data_file.data, year) = <<>>
  /\ year_activities' = <<>>
  /\ data_js' = [written |-> TRUE, year |-> year, runs |-> <<>>, mainMapRuns |-> <<>>,
                 avgPace |-> PaceStr(0, 0)]
  /\ agg_log' = [i \in 1..Len(Warnings(data_file.data)) |-> "warn"]
                  \o <<"write_payload", "render">>
  /\ agg_pc' = "done"
  /\ agg_outcome' = "no_data"
  /\ UNCHANGED <<year, data_file, main_map_activities, avg_pace_str>>
  /\ UNCHANGED sync_vars

\* lines 27-49: no activity of type 'Run' in the year; the run reports it and
\* returns
AggNoData ==
  /\ agg_pc = "started"
  /\ data_file.state = "ok"
  /\ SelectYear(data_file.data, year) = <<>>
  /\ year_activities' = <<>>
  /\ agg_log' = [i \in 1..Len(Warnings(data_file.data)) |-> "warn"]
  /\ agg_pc' = "done"
  /\ agg_outcome' = "no_data"
  /\ UNCHANGED <<year, data_file, main_map_activities, avg_pace_str, data_js>>
  /\ UNCHANGED sync_vars

\* lines 27-151: select the year, filter by the bounding box, compute the
\* statistics and write data_for_js to templates/data.js
AggWritePayload ==
  /\ agg_pc = "started"
  /\ data_file.state = "ok"
  /\ SelectYear(data_file.data, year) # <<>>
  /\ year_activities' = SelectYear(data_file.data, year)
  /\ main_map_activities' = MainMap(year_activities')
  /\ avg_pace_str' = AvgPaceStr(TotalSeconds(year_activities'),
                                TotalDistance(year_activities'))
  /\ data_js' = [written |-> TRUE, year |-> year,
                 runs |-> CleanAll(year_activities'),
                 mainMapRuns |-> CleanAll(main_map_activities'),
                 avgPace |-> avg_pace_str']
  /\ agg_log' = [i \in 1..Len(Warnings(data_file.data)) |-> "warn"]
                  \o <<"write_payload">>
  /\ agg_pc' = "rendering"
  /\ UNCHANGED <<year, data_file, agg_outcome>>
  /\ UNCHANGED sync_vars

\* lines 168-185: the browser loads the template and the screenshot is saved
AggRender ==
  /\ agg_pc = "rendering"
  /\ agg_log' = agg_log \o <<"render">>
  /\ agg_pc' = "done"
  /\ agg_outcome' = "rendered"
  /\ UNCHANGED <<year, data_file, year_activities, main_map_activities, avg_pace_str,
                 data_js>>
  /\ UNCHANGED sync_vars

\* lines 168-183: playwright raises; the exception is caught nowhere
AggRenderFail ==
  /\ agg_pc = "rendering"
  /\ agg_log' = agg_log \o <<"render">>
  /\ agg_pc' = "done"
  /\ agg_outcome' = "uncaught_exception"
  /\ UNCHANGED <<year, data_file, year_activities, main_map_activities, avg_pace_str,
                 data_js>>
  /\ UNCHANGED sync_vars

NextAgg ==
  \/ AggMissingFile
  \/ AggBadFile
  \/ AggNoData
  \/ AggWritePayload
  \/ AggRender
  \/ AggRenderFail

SpecAgg == InitAgg /\ [][NextAgg]_vars

(* ----------------------------- exit status ------------------------------ *)
\* download_activities returns None on every path it handles, so the process
\* ends with status 0; an uncaught exception or a kill ends it with another
SyncExitStatus ==
  IF outcome \in {"uncaught_exception", "crashed"} THEN 1 ELSE 0

\* main: sys.exit(1) at line 21, a traceback for an uncaught exception, and
\* status 0 when main returns
AggExitStatus ==
  IF agg_outcome \in {"missing_file", "uncaught_exception"} THEN 1 ELSE 0

(* ----------------------- vocabulary of the claims ---------------------- *)
UniqueIds(s) == \A i, j \in 1..Len(s) : s[i].id = s[j].id => i = j

NonDecreasingStartDate(s) ==
  \A i, j \in 1..Len(s) : i < j => s[i].start_date <= s[j].start_date

NonDecreasingStartDateLocal(s) ==
  \A i, j \in 1..Len(s) : i < j => s[i].start_date_local <= s[j].start_date_local

MaxOf(S) == CHOOSE m \in S : \A x \in S : x <= m

\* the last record of s that carries the id k
LastWithId(s, k) ==
  s[MaxOf({i \in 1..Len(s) : s[i].id = k})]

Logged(step) == \E i \in 1..Len(log) : log[i] = step

\* the place of a step in the order of section 4.2
StepRank(step) ==
  CASE step = "load_tokens" -> 1
    [] step = "check_expiry" -> 2
    [] step = "refresh" -> 3
    [] step = "save_tokens" -> 4
    [] step = "refresh_failed" -> 4
    [] step = "save_tokens_failed" -> 5
    [] step = "load_cache" -> 5
    [] step = "cursor" -> 6
    [] step = "fetch" -> 7
    [] step = "fetch_failed" -> 8
    [] step = "merge" -> 8
    [] step = "persist" -> 9

\* the cache file the run found, as a reader sees it
OldCache == LoadCached(file_at_start)

(* -------------------------------- C1 ----------------------------------- *)
\* C1: a cache written by a run holds no two records with the same id, whatever
\* duplicates the cache it found or the fetched sequence had; and a cache file
\* without duplicate ids at the start of a run has none at any later point of
\* it, so that runs that start from an empty cache never store a duplicate.
C1_IdentifierUniqueness ==
  (outcome = "saved" \/ UniqueIds(OldCache)) => UniqueIds(activities_file.data)

C1_Witness ==
  /\ outcome = "saved"
  /\ ~UniqueIds(OldCache)
  /\ ~UniqueIds(new_activities)
  /\ Len(activities_file.data) = MaxId

(* -------------------------------- C2 ----------------------------------- *)
\* C2 as stated: every cache written by save_activities is in non-decreasing
\* order of start_date_local.
C2_SortedByStartTimeLocal ==
  outcome = "saved" => NonDecreasingStartDateLocal(activities_file.data)

\* C2 as amended: every cache written by save_activities is in non-decreasing
\* order of start_date, a record without start_date coming first.
C2_SortedByStartDate ==
  outcome = "saved" => NonDecreasingStartDate(activities_file.data)

C2_Witness ==
  /\ outcome = "saved"
  /\ Len(activities_file.data) = 2
  /\ activities_file.data[1].start_date < activities_file.data[2].start_date
  /\ activities_file.data[1].start_date_local > activities_file.data[2].start_date_local
  /\ ~NonDecreasingStartDate(MergeById(cached_activities, new_activities))

(* -------------------------------- C3 ----------------------------------- *)
\* C3 as stated: the cursor passed to the fetch is the start_date_local of the
\* record of the cache with the latest start_date_local, in any on-disk order,
\* and no cursor is passed for an empty cache.
C3_CursorIsLatestStartTimeLocal ==
  Logged("fetch") =>
    after = IF OldCache = <<>> THEN NoDate
            ELSE MaxOf({r.start_date_local : r \in Range(OldCache)})

\* C3 as amended: the cursor passed to the fetch is the greatest start_date of
\* the cache, in any on-disk order; no cursor is passed when the cache is empty
\* or when none of its records has a start_date.
C3_CursorIsLatestStartDate ==
  Logged("fetch") =>
    after = IF OldCache = <<>> THEN NoDate
            ELSE IF \A r \in Range(OldCache) : r.start_date = NoDate THEN NoDate
            ELSE MaxOf({r.start_date : r \in Range(OldCache) \ {q \in Range(OldCache) : q.start_date = NoDate}})

C3_Witness ==
  /\ pc = "fetching"
  /\ Len(OldCache) = 2
  /\ OldCache[1].start_date > OldCache[2].start_date
  /\ OldCache[2].start_date # NoDate
  /\ after = OldCache[1].start_date
  /\ after # OldCache[1].start_date_local

(* -------------------------------- C4 ----------------------------------- *)
\* C4: when the fetch raises, after any number of records, nothing fetched in
\* the run is merged and the cache file is exactly as the run found it.
C4_FetchFailureAllOrNothing ==
  outcome = "fetch_failed" =>
    /\ activities_file = file_at_start
    /\ all_activities = <<>>
    /\ ~Logged("merge") /\ ~Logged("persist")

C4_Witness ==
  /\ outcome = "fetch_failed"
  /\ Len(new_activities) = 1
  /\ OldCache # <<>>
  /\ new_activities[1].id \notin IdsOf(OldCache)

(* -------------------------------- C5 ----------------------------------- *)
\* C5: when the write of the cache fails or the process is killed during
\* save_activities, the next reader finds the complete previous cache file.
C5_AtomicPersist ==
  (pc = "idle" /\ outcome \in {"save_failed", "crashed"}) =>
    activities_file = file_at_start

(* -------------------------------- C6 ----------------------------------- *)
\* C6: when the fetch yields no record the cache file is not written: content
\* and stored order are as the run found them, also when that order was not
\* sorted.
C6_NoOpOnEmptyFetch ==
  outcome = "empty" =>
    /\ activities_file = file_at_start
    /\ ~Logged("persist")

C6_Witness ==
  /\ outcome = "empty"
  /\ activities_file.state = "ok"
  /\ ~NonDecreasingStartDate(activities_file.data)
  /\ cached_activities # activities_file.data

(* -------------------------------- C7 ----------------------------------- *)
\* C7: the cache written after a merge holds exactly the ids of the old cache
\* and of the fetched records; for an id that was fetched the stored record is
\* the fetched one (the last one fetched with that id), for an id only in the
\* old cache it is a record of the old cache, unchanged.
C7_MergeIsUnionFetchedWins ==
  outcome = "saved" =>
    LET stored == activities_file.data
    IN /\ IdsOf(stored) = IdsOf(OldCache) \cup IdsOf(new_activities)
       /\ \A i \in 1..Len(stored) :
            IF stored[i].id \in IdsOf(new_activities)
            THEN stored[i] = LastWithId(new_activities, stored[i].id)
            ELSE stored[i] \in Range(OldCache)

C7_Witness ==
  /\ outcome = "saved"
  /\ \E r \in Range(OldCache) :
       /\ r.id \in IdsOf(new_activities)
       /\ r \notin Range(new_activities)
       /\ r \notin Range(activities_file.data)
  /\ \E r \in Range(OldCache) :
       /\ r.id \notin IdsOf(new_activities)
       /\ r \in Range(activities_file.data)

(* -------------------------------- C8 ----------------------------------- *)
\* C8: a run that finds the cache a run has just written and fetches the same
\* records again writes the same cache: the same records in the same order.
C8_MergeIdempotent ==
  outcome = "saved" =>
    SavedList(CachedSorted(activities_file), new_activities) = activities_file.data

C8_Witness ==
  /\ outcome = "saved"
  /\ OldCache # <<>>
  /\ activities_file.data # OldCache
  /\ IdsOf(new_activities) \cap IdsOf(OldCache) # {}
  /\ Len(activities_file.data) = 2
  /\ activities_file.data[1].start_date = activities_file.data[2].start_date

(* -------------------------------- C9 ----------------------------------- *)
\* C9: the steps of a run occur in the order load credential, refresh if
\* needed, determine cursor, fetch, merge, persist; a run whose credential is
\* missing or whose refresh failed issues no fetch, and a run whose fetch failed
\* neither merges nor persists.
C9_StepOrder ==
  /\ \A i, j \in 1..Len(log) : i < j => StepRank(log[i]) < StepRank(log[j])
  /\ outcome = "missing_credential" => log = <<"load_tokens">>
  /\ Logged("refresh_failed") => ~Logged("fetch")
  /\ Logged("fetch_failed") => ~Logged("merge") /\ ~Logged("persist")
  /\ Logged("fetch") => Logged("load_tokens") /\ Logged("cursor")
  /\ Logged("persist") => Logged("fetch") /\ Logged("merge")
  /\ Logged("refresh") => Logged("load_tokens")

C9_Witness ==
  /\ outcome = "saved"
  /\ log = <<"load_tokens", "check_expiry", "refresh", "save_tokens", "load_cache",
             "cursor", "fetch", "merge", "persist">>

(* -------------------------------- C10 ---------------------------------- *)
\* C10: get_client calls the refresh capability exactly when expires_at - now
\* is below 300 at the check, and before the credential is used: a fetch of a
\* run whose stored credential had less than 300 s left is issued after the
\* refresh, with the credential the refresh returned.
C10_RefreshMargin ==
  Logged("check_expiry") =>
    /\ Logged("refresh") <=> check_left < 300
    /\ (Logged("fetch") /\ check_left < 300) =>
         /\ client = issued
         /\ \E i, j \in 1..Len(log) : i < j /\ log[i] = "save_tokens" /\ log[j] = "fetch"

C10_Witness ==
  /\ pc = "fetching"
  /\ check_left = 299
  /\ Logged("refresh")
  /\ client = tokens_file
  /\ client.access_token = MaxTok

(* ------------------ vocabulary of the claims C11 to C19 ----------------- *)
AggLogged(step) == \E i \in 1..Len(agg_log) : agg_log[i] = step

\* an activity of type Run whose timestamp has the fixed format and the year
MatchesYear(a) ==
  /\ a.type = "Run"
  /\ a.start_date_local.fmt = "iso_z"
  /\ a.start_date_local.y = year

\* an activity of type Run whose timestamp is there and has another shape
Unparseable(a) ==
  /\ a.type = "Run"
  /\ a.start_date_local.fmt = "other"

\* an activity with a start point inside the box, the edges included
StartsInBox(a) ==
  /\ a.start_latlng # NoPoint
  /\ a.start_latlng.lat >= MinLat /\ a.start_latlng.lat <= MaxLat
  /\ a.start_latlng.lon >= MinLon /\ a.start_latlng.lon <= MaxLon

\* "M:SS /km" of the pace s / d * 1000 / 60 = 50 s / (3 d) in exact arithmetic
ExactPaceStr(s, d) ==
  IF d = 0 THEN [min |-> 0, sec |-> <<0, 0>>]
  ELSE LET M == (50 * s) \div (3 * d)
           SS == (((50 * s) % (3 * d)) * 20) \div d
       IN [min |-> M, sec |-> <<SS \div 10, SS % 10>>]

\* the cursor the next run takes from the cache file as it is now
NextCursor ==
  LET d == IF activities_file.state = "ok" THEN activities_file.data ELSE <<>>
  IN IF d = <<>> THEN NoDate ELSE MaxOf({d[i].start_date : i \in 1..Len(d)})

(* -------------------------------- C11 ---------------------------------- *)
\* C11: when the refresh capability raises, the credential file holds the
\* triple the run loaded from it, the cache file is as the run found it, and
\* the run has ended without a fetch.
C11_RefreshFailureLeavesState ==
  outcome = "refresh_failed" =>
    /\ pc = "idle"
    /\ tokens_file \in Credentials /\ tokens_file = client
    /\ activities_file = file_at_start
    /\ ~Logged("fetch")

C11_Witness ==
  /\ outcome = "refresh_failed"
  /\ tokens_file.access_token = MaxTok
  /\ activities_file.state = "ok"
  /\ activities_file.data # <<>>

(* -------------------------------- C12 ---------------------------------- *)
\* C12: a sync run that ends in a missing credential, a failed refresh or a
\* failed fetch, and an aggregation run whose input file is missing, exit with
\* a status other than 0; a sync run that saved or fetched nothing, and an
\* aggregation run that rendered or found no data for the year, exit with 0.
C12_ExitStatus ==
  /\ (pc = "idle" /\ outcome \in {"missing_credential", "refresh_failed", "fetch_failed"})
       => SyncExitStatus # 0
  /\ (pc = "idle" /\ outcome \in {"empty", "saved"}) => SyncExitStatus = 0
  /\ agg_outcome = "missing_file" => AggExitStatus # 0
  /\ agg_outcome \in {"no_data", "rendered"} => AggExitStatus = 0

(* -------------------------------- C13 ---------------------------------- *)
\* C13: the activities aggregated for a year are exactly the activities of the
\* data file of type Run whose start_date_local parses to that year, in file
\* order; one whose timestamp does not parse is warned about and skipped, and
\* the activities behind it are still looked at.
C13_YearSelection ==
  (data_file.state = "ok" /\ agg_pc # "started") =>
    /\ year_activities = SelectSeq(data_file.data, MatchesYear)
    /\ Len(SelectSeq(agg_log, LAMBDA e : e = "warn"))
         = Len(SelectSeq(data_file.data, Unparseable))

C13_Witness ==
  /\ agg_outcome = "rendered"
  /\ Len(data_file.data) = 2
  /\ Unparseable(data_file.data[1])
  /\ year_activities = <<data_file.data[2]>>
  /\ year = MaxYear

(* -------------------------------- C14 ---------------------------------- *)
\* C14: an activity of the year is in the main-map subset exactly when it has a
\* start point with min_lat <= lat <= max_lat and min_lon <= lon <= max_lon, the
\* edges included; an activity without a start point is never in it.
C14_BoundingBox ==
  data_js.written => main_map_activities = SelectSeq(year_activities, StartsInBox)

C14_Witness ==
  /\ data_js.written
  /\ Len(year_activities) = 2
  /\ year_activities[1].start_latlng = [lat |-> MaxLat, lon |-> MaxLon]
  /\ year_activities[2].start_latlng = NoPoint
  /\ main_map_activities = <<year_activities[1]>>

(* -------------------------------- C15 ---------------------------------- *)
\* C15: when no activity matches year and kind the run reports no data, writes
\* no payload and never invokes the renderer; otherwise the payload is written
\* before the renderer is invoked.
C15_EmptyYear ==
  /\ (agg_pc = "done" /\ data_file.state = "ok"
        /\ SelectSeq(data_file.data, MatchesYear) = <<>>) => agg_outcome = "no_data"
  /\ agg_outcome = "no_data" =>
       /\ data_js = NoPayload
       /\ ~AggLogged("write_payload") /\ ~AggLogged("render")
  /\ \A j \in 1..Len(agg_log) :
       agg_log[j] = "render" =>
         /\ data_js.written
         /\ \E i \in 1..(j - 1) : agg_log[i] = "write_payload"

C15_Witness ==
  /\ agg_outcome = "no_data"
  /\ Len(data_file.data) = 2
  /\ \A i \in 1..2 : data_file.data[i].type = "Run"
                       /\ data_file.data[i].start_date_local.fmt = "iso_z"

(* -------------------------------- C16 ---------------------------------- *)
\* C16: avgPace is "0:00 /km" for a total distance of 0 and otherwise "M:SS /km"
\* with M the pace truncated and SS the truncated seconds of its fraction, in
\* 0..59 and padded to two digits: 10000 m in 3000 s give "5:00 /km", 10000 m
\* in 3030 s give "5:03 /km".
C16_PaceFormatting ==
  data_js.written =>
    /\ data_js.avgPace = ExactPaceStr(TotalSeconds(year_activities),
                                      TotalDistance(year_activities))
    /\ data_js.avgPace.sec[1] \in 0..5 /\ data_js.avgPace.sec[2] \in 0..9

(* -------------------------------- C17 ---------------------------------- *)
\* C17: after a run that saved, fetched nothing or failed by a credential or a
\* fetch error, every id the cache file held before the run is still in it.
C17_LedgerAppendOnly ==
  outcome \in {"saved", "empty", "missing_credential", "refresh_failed", "fetch_failed"} =>
    IdsOf(file_at_start.data) \subseteq IdsOf(activities_file.data)

C17_Witness ==
  /\ outcome = "saved"
  /\ IdsOf(file_at_start.data) = {1}
  /\ IdsOf(new_activities) = {MaxId}
  /\ IdsOf(activities_file.data) = {1, MaxId}
  /\ MaxId # 1

(* -------------------------------- C18 ---------------------------------- *)
\* C18: when the fetch yields only records with a start_date after the cursor,
\* the cursor the next run computes is not below the cursor of this run, and
\* it is above it when this run fetched records and saved them.
C18_CursorProgress ==
  (pc = "idle" /\ Logged("cursor")
     /\ \A i \in 1..Len(new_activities) : new_activities[i].start_date > after) =>
    /\ NextCursor >= after
    /\ outcome = "saved" => NextCursor > after

====
